---- MODULE Spec2Model ----
(***************************************************************************)
(* Model of the AI code review assistant backend:                          *)
(*   backend/llm_service.py  metrics, prompt, model call, normalisation    *)
(*   backend/main.py         POST /api/review, GET /api/reports            *)
(*   backend/db.py           the reviews table                             *)
(*   backend/schemas.py      Issue / ReviewResponse validation             *)
(*                                                                         *)
(* Python values are modelled as records of one shape (PyVal below), and a *)
(* Python str as a sequence of tokens: a token is one character, or one    *)
(* whole single-line JSON document (what json.loads accepts).              *)
(***************************************************************************)
EXTENDS Integers, Sequences, FiniteSets, TLC

VARIABLES
    call,       \* function harness: the function applied and its arguments
    ret,        \* function harness: what the function returned / raised
    apiKey,     \* llm_service.GROQ_API_KEY is set (module global, read at import)
    endpoint,   \* how the remote chat-completion endpoint answers
    clock,      \* the database server's CURRENT_TIMESTAMP, in ticks
    reviews,    \* the rows of table `reviews`, in insertion order
    req,        \* the HTTP request being handled: handler position and locals
    resp,       \* the last HTTP response sent
    posted,     \* per stored review, the ReviewResponse its POST was answered with
    pydanticLax, \* the installed pydantic coerces numbers to str (version 1)
    frames      \* concurrent review_code_with_llm calls: each call's own locals

vars == <<call, ret, apiKey, endpoint, clock, reviews, req, resp, posted, pydanticLax,
          frames>>
svcVars == <<apiKey, endpoint, clock, reviews, req, resp, posted, pydanticLax>>
fnVars == <<call, ret, frames>>

----------------------------------------------------------------------------
(* Bounds of the model *)

\* longest file content (characters) drawn for the per-file functions
MaxContentLen == 4
\* longest raw (non-JSON) model reply drawn, counted in lines
MaxReplyLines == 6
\* longest issues list in a drawn model reply
MaxIssues == 2
\* most rows the reviews table grows to
MaxReviews == 2
\* most rows it grows to under the broad inputs of Spec
MaxSvcReviews == 1
\* last tick of the database clock
MaxClock == 1
\* most characters a drawn file content runs past the truncation budget
MaxOverBudget == 2
\* most lines of a file content drawn for the security scan
MaxScanLines == 2
\* concurrent calls of review_code_with_llm
MaxCalls == 2

----------------------------------------------------------------------------
(* Python values *)

\* A Python value: t is the type tag, n an int, s the tokens of a str,
\* l the items of a list, d the mapping of a dict (keys are plain strings).
PyVal(t, n, s, l, d) == [t |-> t, n |-> n, s |-> s, l |-> l, d |-> d]
EmptyMap == << >>
PyNone == PyVal("null", 0, << >>, << >>, EmptyMap)
PyNum(k) == PyVal("num", k, << >>, << >>, EmptyMap)
PyStr(x) == PyVal("str", 0, x, << >>, EmptyMap)
PyList(xs) == PyVal("list", 0, << >>, xs, EmptyMap)
PyDict(f) == PyVal("dict", 0, << >>, << >>, f)

\* One character of a str (it carries no document).
NoDoc == [t |-> "none"]
Chr(c) == [c |-> c, j |-> NoDoc]
\* One JSON document inside a str: the text json.dumps would give for v.
Doc(v) == [c |-> "", j |-> v]
IsDoc(tok) == tok.c = ""
\* The str with the given characters.
Text(cs) == [i \in 1..Len(cs) |-> Chr(cs[i])]

\* dict.get(key, default)
DictGet(f, key, default) == IF key \in DOMAIN f THEN f[key] ELSE default

\* bool(v): Python truthiness
Truthy(v) ==
    CASE v.t = "null" -> FALSE
      [] v.t = "num" -> v.n # 0
      [] v.t = "str" -> v.s # << >>
      [] v.t = "list" -> v.l # << >>
      [] v.t = "dict" -> DOMAIN v.d # {}
      [] OTHER -> TRUE

----------------------------------------------------------------------------
(* str methods *)

\* Characters str.strip() removes, among the characters the model draws.
Whitespace == {" ", "\n"}
IsSpace(tok) == tok.c \in Whitespace

RECURSIVE LStrip(_)
LStrip(s) == IF s = << >> \/ ~IsSpace(Head(s)) THEN s ELSE LStrip(Tail(s))

RECURSIVE RStrip(_)
RStrip(s) ==
    IF s = << >> \/ ~IsSpace(s[Len(s)]) THEN s ELSE RStrip(SubSeq(s, 1, Len(s) - 1))

\* s.strip()
Strip(s) == RStrip(LStrip(s))

NewlineAt(s) == {i \in 1..Len(s) : s[i].c = "\n"}
Min(S) == CHOOSE m \in S : \A k \in S : m <= k

\* s.split('\n'): one more part than there are newlines
RECURSIVE SplitNL(_)
SplitNL(s) ==
    IF NewlineAt(s) = {} THEN << s >>
    ELSE LET i == Min(NewlineAt(s))
         IN  << SubSeq(s, 1, i - 1) >> \o SplitNL(SubSeq(s, i + 1, Len(s)))

\* s.splitlines(): no part for the empty str, none after a final newline
SplitLines(s) ==
    IF s = << >> THEN << >>
    ELSE LET parts == SplitNL(s)
         IN  IF parts[Len(parts)] = << >> THEN SubSeq(parts, 1, Len(parts) - 1)
             ELSE parts

\* "\n".join(lines)
RECURSIVE JoinNL(_)
JoinNL(lines) ==
    IF lines = << >> THEN << >>
    ELSE IF Len(lines) = 1 THEN lines[1]
    ELSE lines[1] \o << Chr("\n") >> \o JoinNL(Tail(lines))

\* lines[:k]
Take(xs, k) == SubSeq(xs, 1, IF Len(xs) < k THEN Len(xs) ELSE k)

\* s.startswith(c) for a one-character c
StartsWith(s, c) == s # << >> /\ s[1].c = c

\* c.lower(): the ASCII letters
UpperLetters ==
    << "A", "B", "C", "D", "E", "F", "G", "H", "I", "J", "K", "L", "M" >> \o
    << "N", "O", "P", "Q", "R", "S", "T", "U", "V", "W", "X", "Y", "Z" >>
LowerLetters ==
    << "a", "b", "c", "d", "e", "f", "g", "h", "i", "j", "k", "l", "m" >> \o
    << "n", "o", "p", "q", "r", "s", "t", "u", "v", "w", "x", "y", "z" >>
LowerChar(c) ==
    IF \E i \in 1..Len(UpperLetters) : UpperLetters[i] = c
    THEN LowerLetters[CHOOSE i \in 1..Len(UpperLetters) : UpperLetters[i] = c]
    ELSE c
\* the decimal digits
Digits == {"0", "1", "2", "3", "4", "5", "6", "7", "8", "9"}

\* s.lower()
Lower(s) == [i \in 1..Len(s) |-> IF IsDoc(s[i]) THEN s[i] ELSE Chr(LowerChar(s[i].c))]

\* kw occurs in s at position i
OccursAt(s, kw, i) ==
    /\ i + Len(kw) - 1 <= Len(s)
    /\ \A k \in 1..Len(kw) : s[i + k - 1].c = kw[k]

\* s.count(kw): non-overlapping occurrences, scanning from index i
RECURSIVE CountFrom(_, _, _)
CountFrom(s, kw, i) ==
    IF i + Len(kw) - 1 > Len(s) THEN 0
    ELSE IF OccursAt(s, kw, i) THEN 1 + CountFrom(s, kw, i + Len(kw))
    ELSE CountFrom(s, kw, i + 1)

Count(s, kw) == CountFrom(s, kw, 1)

RECURSIVE SumSeq(_)
SumSeq(xs) == IF xs = << >> THEN 0 ELSE Head(xs) + SumSeq(Tail(xs))

\* len([x for x in xs if P(x)])
CountIf(xs, P(_)) == Cardinality({i \in 1..Len(xs) : P(xs[i])})

----------------------------------------------------------------------------
(* llm_service.calculate_code_metrics *)

complexity_keywords ==
    << <<"i", "f">>, <<"f", "o", "r">>, <<"w", "h", "i", "l", "e">>,
       <<"e", "l", "i", "f">>, <<"e", "l", "s", "e">>, <<"t", "r", "y">>,
       <<"e", "x", "c", "e", "p", "t">>, <<"d", "e", "f">>,
       <<"c", "l", "a", "s", "s">> >>

\* round(num / den * 100, 2) in hundredths: the nearest integer to
\* num * 10000 / den, ties to even (a tie needs den >= 32).
RoundRatio(num, den) ==
    LET q == (num * 10000) \div den
        r2 == 2 * ((num * 10000) % den)
    IN  IF r2 < den THEN q
        ELSE IF r2 > den THEN q + 1
        ELSE IF q % 2 = 0 THEN q ELSE q + 1

\* the lines calculate_code_metrics counts
MetricLinesUnstripped(content) == SplitNL(content)
MetricLines(content) == SplitNL(Strip(content))

IsCodeLine(l) == Strip(l) # << >> /\ ~StartsWith(Strip(l), "#")
IsCommentLine(l) == StartsWith(Strip(l), "#")
IsBlankLine(l) == Strip(l) = << >>

\* comment_ratio, in hundredths of a percent
CommentRatioInverted(comment_lines, total_lines) ==
    IF total_lines > 0 THEN RoundRatio(total_lines - comment_lines, total_lines) ELSE 0
CommentRatio(comment_lines, total_lines) ==
    IF total_lines > 0 THEN RoundRatio(comment_lines, total_lines) ELSE 0

\* the metrics of one file
FileMetrics(content) ==
    LET lines == MetricLines(content)
        total_lines == Len(lines)
        code_lines == CountIf(lines, IsCodeLine)
        comment_lines == CountIf(lines, IsCommentLine)
        complexity_score ==
            SumSeq([k \in 1..Len(complexity_keywords) |->
                        Count(Lower(content), complexity_keywords[k])])
    IN  [total_lines |-> total_lines,
         code_lines |-> code_lines,
         comment_lines |-> comment_lines,
         complexity_score |-> complexity_score,
         comment_ratio |-> CommentRatio(comment_lines, total_lines)]

\* A FileSet (dict filename -> content) is a sequence of [name, content]
\* in insertion order, names unique.
Keys(files) == [i \in 1..Len(files) |-> files[i].name]
KeySet(files) == {files[i].name : i \in 1..Len(files)}

\* files[name] = content: in place when the key exists, else appended
DictSet(files, name, content) ==
    IF name \in KeySet(files)
    THEN [i \in 1..Len(files) |->
              IF files[i].name = name THEN [name |-> name, content |-> content]
              ELSE files[i]]
    ELSE Append(files, [name |-> name, content |-> content])

\* calculate_code_metrics(files): dict filename -> metrics, in files' order
calculate_code_metrics(files) ==
    [i \in 1..Len(files) |->
        [name |-> files[i].name, metrics |-> FileMetrics(files[i].content)]]

----------------------------------------------------------------------------
(* llm_service.scan_security_issues *)

\* A regex of `patterns` is a sequence of items: a character class (kind
\* "class"), a negated class ("notclass"), the dot ("any") or the word
\* boundary \b ("boundary"), taken once ("one"), zero or more times ("star")
\* or one or more times ("plus").
Item(kind, chars, rep) == [kind |-> kind, chars |-> chars, rep |-> rep]
Lit(c) == Item("class", {c}, "one")
Lits(cs) == [i \in 1..Len(cs) |-> Lit(cs[i])]
Quote == Item("class", {"\"", "'"}, "one")
NotQuotePlus == Item("notclass", {"\"", "'"}, "plus")
SpaceStar == Item("class", Whitespace, "star")
DotStar == Item("any", {}, "star")
WordBoundary == Item("boundary", {}, "one")

\* \w, under re.IGNORECASE
WordChars ==
    {LowerLetters[i] : i \in 1..Len(LowerLetters)} \cup Digits \cup {"_"}
IsWordChar(tok) == LowerChar(tok.c) \in WordChars

\* the item matches the character tok, ignoring case
ItemTakes(item, tok) ==
    CASE item.kind = "class" -> LowerChar(tok.c) \in item.chars
      [] item.kind = "notclass" -> LowerChar(tok.c) \notin item.chars
      [] item.kind = "any" -> tok.c # "\n"
      [] OTHER -> FALSE

\* \b before position i of line: a word character on exactly one side
AtBoundary(line, i) ==
    (i > 1 /\ IsWordChar(line[i - 1])) # (i <= Len(line) /\ IsWordChar(line[i]))

\* the items k.. of regex match line from position i on
RECURSIVE MatchHere(_, _, _, _)
MatchHere(regex, k, line, i) ==
    IF k > Len(regex) THEN TRUE
    ELSE LET item == regex[k]
             takes == i <= Len(line) /\ ItemTakes(item, line[i])
         IN  CASE item.kind = "boundary" ->
                    AtBoundary(line, i) /\ MatchHere(regex, k + 1, line, i)
               [] item.rep = "one" -> takes /\ MatchHere(regex, k + 1, line, i + 1)
               [] item.rep = "star" ->
                    \/ MatchHere(regex, k + 1, line, i)
                    \/ takes /\ MatchHere(regex, k, line, i + 1)
               [] OTHER ->
                    takes /\ (\/ MatchHere(regex, k + 1, line, i + 1)
                              \/ MatchHere(regex, k, line, i + 1))

\* re.search(regex, line, re.IGNORECASE)
Search(regex, line) == \E i \in 1..(Len(line) + 1) : MatchHere(regex, 1, line, i)

\* the regexes of `patterns`, their letters in lower case
\* execute\s*\(\s*["\'].*%s
ExecuteFormatRegex ==
    Lits(<< "e", "x", "e", "c", "u", "t", "e" >>)
    \o << SpaceStar, Lit("("), SpaceStar, Quote, DotStar, Lit("%"), Lit("s") >>
\* cursor\.execute.*\+
CursorConcatRegex ==
    Lits(<< "c", "u", "r", "s", "o", "r", ".", "e", "x", "e", "c", "u", "t", "e" >>)
    \o << DotStar, Lit("+") >>
\* password\s*=\s*["\'][^"\']+["\']
PasswordRegex ==
    Lits(<< "p", "a", "s", "s", "w", "o", "r", "d" >>)
    \o << SpaceStar, Lit("="), SpaceStar, Quote, NotQuotePlus, Quote >>
\* api_key\s*=\s*["\'][^"\']+["\']
ApiKeyRegex ==
    Lits(<< "a", "p", "i", "_", "k", "e", "y" >>)
    \o << SpaceStar, Lit("="), SpaceStar, Quote, NotQuotePlus, Quote >>
\* \beval\(
EvalRegex == << WordBoundary >> \o Lits(<< "e", "v", "a", "l", "(" >>)
\* \bexec\(
ExecRegex == << WordBoundary >> \o Lits(<< "e", "x", "e", "c", "(" >>)
\* os\.system\(
OsSystemRegex == Lits(<< "o", "s", ".", "s", "y", "s", "t", "e", "m", "(" >>)
\* subprocess\.call\(.*shell=True
SubprocessShellRegex ==
    Lits(<< "s", "u", "b", "p", "r", "o", "c", "e", "s", "s", ".", "c", "a", "l", "l",
            "(" >>)
    \o << DotStar >>
    \o Lits(<< "s", "h", "e", "l", "l", "=", "t", "r", "u", "e" >>)

\* patterns, in declaration order; title is vuln_type.replace('_', ' ').title()
patterns ==
    << [vuln_type |-> "sql_injection", title |-> "Sql Injection",
        regexes |-> << ExecuteFormatRegex, CursorConcatRegex >>],
       [vuln_type |-> "hardcoded_secrets", title |-> "Hardcoded Secrets",
        regexes |-> << PasswordRegex, ApiKeyRegex >>],
       [vuln_type |-> "unsafe_eval", title |-> "Unsafe Eval",
        regexes |-> << EvalRegex, ExecRegex >>],
       [vuln_type |-> "command_injection", title |-> "Command Injection",
        regexes |-> << OsSystemRegex, SubprocessShellRegex >>] >>

RECURSIVE Concat(_)
Concat(seqs) == IF seqs = << >> THEN << >> ELSE Head(seqs) \o Concat(Tail(seqs))

\* the dict appended for one match
Finding(filename, line_num, title, line) ==
    [file |-> filename, line |-> line_num, type |-> title, code |-> Strip(line)]

CategoryFindingsOnce(filename, line_num, line, category) ==
    IF \E r \in 1..Len(category.regexes) : Search(category.regexes[r], line)
    THEN << Finding(filename, line_num, category.title, line) >>
    ELSE << >>
\* the loop over the regexes of one category
CategoryFindings(filename, line_num, line, category) ==
    Concat([r \in 1..Len(category.regexes) |->
        IF Search(category.regexes[r], line)
        THEN << Finding(filename, line_num, category.title, line) >>
        ELSE << >>])

\* the loop over patterns.items() for one line
LineFindings(filename, line_num, line) ==
    Concat([c \in 1..Len(patterns) |->
        CategoryFindings(filename, line_num, line, patterns[c])])

\* the lines scan_security_issues numbers: content.split('\n')
ScanLinesOf(content) == SplitNL(content)

\* the loop over enumerate(lines, 1) for one file
FileFindings(file) ==
    LET lines == ScanLinesOf(file.content)
    IN  Concat([n \in 1..Len(lines) |-> LineFindings(file.name, n, lines[n])])

\* scan_security_issues(files)
scan_security_issues(files) ==
    Concat([i \in 1..Len(files) |-> FileFindings(files[i])])

----------------------------------------------------------------------------
(* llm_service._fallback_parse and llm_service.review_code_with_llm *)

\* lines[:5] in _fallback_parse
SummaryLines == 5
\* the neutral default quality_score, 5.0
DefaultQuality == 5

\* the dict a review is returned as
ReviewResult(summary, details, quality_score, strengths, issues, metrics, raw) ==
    [summary |-> summary, details |-> details, quality_score |-> quality_score,
     strengths |-> strengths, issues |-> issues, metrics |-> metrics,
     raw_response |-> raw]

FallbackUnstripped(text) ==
    ReviewResult(PyStr(JoinNL(Take(SplitLines(text), SummaryLines))), PyStr(text),
                 PyNum(DefaultQuality), PyList(<< >>), PyList(<< >>), << >>, PyStr(text))
\* _fallback_parse(text); its "metrics" is the empty dict
_fallback_parse(text) ==
    LET lines == SplitLines(Strip(text))
    IN  ReviewResult(PyStr(JoinNL(Take(lines, SummaryLines))), PyStr(Strip(text)),
                     PyNum(DefaultQuality), PyList(<< >>), PyList(<< >>), << >>,
                     PyStr(text))

\* json.loads(content) succeeds: one JSON document, JSON whitespace around it
JsonLoads(content) ==
    LET body == Strip(content)
    IN  IF Len(body) = 1 /\ IsDoc(body[1])
        THEN [ok |-> TRUE, value |-> body[1].j]
        ELSE [ok |-> FALSE, value |-> PyNone]

\* the try block of review_code_with_llm: the projection of the parsed object
ProjectStrippedRaw(parsed, metrics, content) ==
    ReviewResult(DictGet(parsed.d, "summary", PyStr(<< >>)),
                 DictGet(parsed.d, "details", PyStr(<< >>)),
                 DictGet(parsed.d, "quality_score", PyNum(DefaultQuality)),
                 DictGet(parsed.d, "strengths", PyList(<< >>)),
                 DictGet(parsed.d, "issues", PyList(<< >>)),
                 metrics,
                 PyStr(Strip(content)))
Project(parsed, metrics, content) ==
    ReviewResult(DictGet(parsed.d, "summary", PyStr(<< >>)),
                 DictGet(parsed.d, "details", PyStr(<< >>)),
                 DictGet(parsed.d, "quality_score", PyNum(DefaultQuality)),
                 DictGet(parsed.d, "strengths", PyList(<< >>)),
                 DictGet(parsed.d, "issues", PyList(<< >>)),
                 metrics,
                 PyStr(content))

\* lines 206-222: parse the reply, or fall back (json.loads raised, or
\* parsed.get raised AttributeError because parsed is no dict)
NormalizeBareFallback(content, metrics) ==
    LET loaded == JsonLoads(content)
    IN  IF loaded.ok /\ loaded.value.t = "dict"
        THEN Project(loaded.value, metrics, content)
        ELSE _fallback_parse(content)
Normalize(content, metrics) ==
    LET loaded == JsonLoads(content)
    IN  IF loaded.ok /\ loaded.value.t = "dict"
        THEN Project(loaded.value, metrics, content)
        ELSE [_fallback_parse(content) EXCEPT !.metrics = metrics]

NoResult == [none |-> TRUE]

\* the outcome of one call: the exception raised ("" for none), the dict
\* returned, and the number of requests.post calls made
Outcome(exc, value, posts) == [exc |-> exc, value |-> value, posts |-> posts]

ReviewNoKeyCheck(files, key, answer) ==
    IF answer.status = "timeout" THEN Outcome("Timeout", NoResult, 1)
    ELSE IF answer.status = "http_error" THEN Outcome("HTTPError", NoResult, 1)
    ELSE IF answer.status = "bad_body" THEN Outcome("KeyError", NoResult, 1)
    ELSE Outcome("", Normalize(answer.content, calculate_code_metrics(files)), 1)
ReviewSwallowingErrors(files, key, answer) ==
    IF ~key THEN Outcome("LLMConfigError", NoResult, 0)
    ELSE IF answer.status # "ok"
    THEN Outcome("", Normalize(<< >>, calculate_code_metrics(files)), 1)
    ELSE Outcome("", Normalize(answer.content, calculate_code_metrics(files)), 1)
\* review_code_with_llm(files), given GROQ_API_KEY and the endpoint's answer
review_code_with_llm(files, key, answer) ==
    IF ~key THEN Outcome("LLMConfigError", NoResult, 0)
    ELSE LET metrics == calculate_code_metrics(files)
         IN  IF answer.status = "timeout" THEN Outcome("Timeout", NoResult, 1)
             ELSE IF answer.status = "http_error" THEN Outcome("HTTPError", NoResult, 1)
             ELSE IF answer.status = "bad_body" THEN Outcome("KeyError", NoResult, 1)
             ELSE Outcome("", Normalize(answer.content, metrics), 1)

----------------------------------------------------------------------------
(* llm_service._build_prompt_from_files *)

\* max_chars, the truncation budget of one file
max_chars == 8000

\* "\n\n[...TRUNCATED...]"
TruncationMarker == << Chr("\n"), Chr("\n"), Chr("[...TRUNCATED...]") >>
\* "--- BEGIN FILE: {filename} ---\n" and "\n--- END FILE ---\n"
BeginMarker(filename) ==
    << Chr("--- BEGIN FILE: "), Chr(filename), Chr(" ---"), Chr("\n") >>
EndMarker == << Chr("\n"), Chr("--- END FILE ---"), Chr("\n") >>

OverBudgetInclusive(content) == Len(content) >= max_chars
\* len(content) > max_chars
OverBudget(content) == Len(content) > max_chars

\* the content as the prompt carries it
PromptBody(content) ==
    IF OverBudget(content) THEN SubSeq(content, 1, max_chars) \o TruncationMarker
    ELSE content

\* one element of parts
PromptPart(file) == BeginMarker(file.name) \o PromptBody(file.content) \o EndMarker

\* _build_prompt_from_files(files): "\n".join(parts)
_build_prompt_from_files(files) ==
    JoinNL([i \in 1..Len(files) |-> PromptPart(files[i])])

----------------------------------------------------------------------------
(* review_code_with_llm statement by statement: the frame of one call *)

\* The locals of one call: its position, its argument, the reply its own
\* request gets, which locals are bound (computed), and the requests made.
Frame(pc, files, answer, computed, metrics, security_issues, prompt_code, posts, exc, result) ==
    [pc |-> pc, files |-> files, answer |-> answer, computed |-> computed,
     metrics |-> metrics, security_issues |-> security_issues,
     prompt_code |-> prompt_code, posts |-> posts, exc |-> exc, result |-> result]
NewFrame(files, answer) ==
    Frame("check_key", files, answer, {}, << >>, << >>, << >>, 0, "", NoResult)

\* lines 115-116: if not GROQ_API_KEY: raise LLMConfigError
KeyChecked(f, key) ==
    IF ~key THEN [f EXCEPT !.pc = "raised", !.exc = "LLMConfigError"]
    ELSE [f EXCEPT !.pc = "metrics"]

WithMetricsOfFirstCall(f) ==
    [f EXCEPT !.pc = "scan", !.computed = @ \cup {"metrics"},
              !.metrics = calculate_code_metrics(frames[1].files)]
\* line 119: metrics = calculate_code_metrics(files)
WithMetrics(f) ==
    [f EXCEPT !.pc = "scan", !.computed = @ \cup {"metrics"},
              !.metrics = calculate_code_metrics(f.files)]

\* line 122: security_issues = scan_security_issues(files)
WithFindings(f) ==
    [f EXCEPT !.pc = "prompt", !.computed = @ \cup {"security_issues"},
              !.security_issues = scan_security_issues(f.files)]

\* lines 124-192: prompt_code = _build_prompt_from_files(files), and the
\* messages and payload built from it
WithPrompt(f) ==
    [f EXCEPT !.pc = "post", !.computed = @ \cup {"prompt_code"},
              !.prompt_code = _build_prompt_from_files(f.files)]

\* lines 194-204: requests.post, raise_for_status, the reply's content
Posted(f) ==
    LET g == [f EXCEPT !.posts = @ + 1]
    IN  IF f.answer.status = "timeout" THEN [g EXCEPT !.pc = "raised", !.exc = "Timeout"]
        ELSE IF f.answer.status = "http_error"
        THEN [g EXCEPT !.pc = "raised", !.exc = "HTTPError"]
        ELSE IF f.answer.status = "bad_body"
        THEN [g EXCEPT !.pc = "raised", !.exc = "KeyError"]
        ELSE [g EXCEPT !.pc = "parse"]

ParsedWithRetry(f) ==
    [f EXCEPT !.pc = "returned",
              !.posts = IF JsonLoads(f.answer.content).ok THEN @ ELSE @ + 1,
              !.result = Normalize(f.answer.content, f.metrics)]
\* lines 207-222: the parsed projection, or the fallback
Parsed(f) ==
    [f EXCEPT !.pc = "returned", !.result = Normalize(f.answer.content, f.metrics)]

\* the call ended: it returned or raised
Ended(f) == f.pc \in {"returned", "raised"}

\* call p takes its next statement
CheckKey(p) ==
    /\ frames[p].pc = "check_key"
    /\ frames' = [frames EXCEPT ![p] = KeyChecked(@, apiKey)]
    /\ UNCHANGED <<call, ret, svcVars>>

ComputeMetrics(p) ==
    /\ frames[p].pc = "metrics"
    /\ frames' = [frames EXCEPT ![p] = WithMetrics(@)]
    /\ UNCHANGED <<call, ret, svcVars>>

ScanSecurity(p) ==
    /\ frames[p].pc = "scan"
    /\ frames' = [frames EXCEPT ![p] = WithFindings(@)]
    /\ UNCHANGED <<call, ret, svcVars>>

BuildPrompt(p) ==
    /\ frames[p].pc = "prompt"
    /\ frames' = [frames EXCEPT ![p] = WithPrompt(@)]
    /\ UNCHANGED <<call, ret, svcVars>>

PostRequest(p) ==
    /\ frames[p].pc = "post"
    /\ frames' = [frames EXCEPT ![p] = Posted(@)]
    /\ UNCHANGED <<call, ret, svcVars>>

ParseReply(p) ==
    /\ frames[p].pc = "parse"
    /\ frames' = [frames EXCEPT ![p] = Parsed(@)]
    /\ UNCHANGED <<call, ret, svcVars>>

----------------------------------------------------------------------------
(* main.review_code, main.list_recent_reports, schemas, db *)

\* max_files
max_files == 10
\* the largest upload accepted, in bytes
MaxFileBytes == 1000000
\* the limits list_recent_reports accepts
MinLimit == 1
MaxLimit == 100

\* An upload: upload.read() gives nbytes bytes, which decode (errors ignored)
\* to content; the model keeps the byte count and the decoded text.
Upload(filename, nbytes, content) ==
    [filename |-> filename, nbytes |-> nbytes, content |-> content]

TooLargeInclusive(nbytes) == nbytes >= MaxFileBytes
\* len(content_bytes) > 1_000_000
TooLarge(nbytes) == nbytes > MaxFileBytes

\* the loop over the uploads: stops at the first upload that is too large
RECURSIVE ReadUploads(_, _, _, _)
ReadUploads(files, i, file_contents, filenames) ==
    IF i > Len(files)
    THEN [ok |-> TRUE, file_contents |-> file_contents, filenames |-> filenames]
    ELSE IF TooLarge(files[i].nbytes)
    THEN [ok |-> FALSE, file_contents |-> file_contents, filenames |-> filenames]
    ELSE ReadUploads(files, i + 1,
                     DictSet(file_contents, files[i].filename, files[i].content),
                     Append(filenames, files[i].filename))

\* the detail of the 400 review_code raises for these uploads, "" for none
UploadError(files) ==
    IF files = << >> THEN "No files uploaded."
    ELSE IF Len(files) > max_files THEN "Too many files uploaded."
    ELSE IF ~ReadUploads(files, 1, << >>, << >>).ok THEN "File is too large"
    ELSE ""

\* the text of a decimal numeral, for the numerals the model draws
IsNumeral(s) == Len(s) = 1 /\ s[1].c \in Digits
NumeralValue(s) == CHOOSE k \in 0..9 : ToString(k) = s[1].c

\* json.dumps(v): the str holding v's JSON document
Dumps(v) == << Doc(v) >>

\* a metrics map as the Python dict of dicts it is
MetricsToPy(m) ==
    PyDict([name \in {m[i].name : i \in 1..Len(m)} |->
        LET f == (CHOOSE i \in 1..Len(m) : m[i].name = name)
        IN  PyDict([k \in DOMAIN m[f].metrics |-> PyNum(m[f].metrics[k])])])

\* ", ".join(filenames): each filename is one token of the str
RECURSIVE JoinNames(_)
JoinNames(names) ==
    IF names = << >> THEN << >>
    ELSE IF Len(names) = 1 THEN << Chr(names[1]) >>
    ELSE << Chr(names[1]), Chr(","), Chr(" ") >> \o JoinNames(Tail(names))

\* lines 85-104 of review_code: the locals taken from llm_result.
\* .strip() raises AttributeError on a value that is no str.
Locals(r) ==
    [raised |-> r.summary.t # "str" \/ r.details.t # "str" \/ r.raw_response.t # "str",
     summary |-> Strip(r.summary.s),
     details |-> Strip(r.details.s),
     raw_response |-> Strip(r.raw_response.s),
     issues |-> IF Truthy(r.issues) THEN r.issues ELSE PyList(<< >>),
     quality_score |-> r.quality_score,
     strengths |-> r.strengths,
     metrics |-> r.metrics]

\* quality_score FLOAT: the column holds a single-precision number, of
\* SignificandBits significant bits, and a SELECT gives it back as a decimal
\* of FloatDigits significant digits
SignificandBits == 24
FloatDigits == 6

RECURSIVE Pow(_, _)
Pow(b, e) == IF e = 0 THEN 1 ELSE b * Pow(b, e - 1)

\* the least power of base that leaves k fewer than digits digits in base
RECURSIVE UnitOf(_, _, _, _)
UnitOf(k, base, digits, unit) ==
    IF k \div unit < Pow(base, digits) THEN unit
    ELSE UnitOf(k, base, digits, unit * base)

\* k rounded to the nearest multiple of unit, a tie to the even multiple
RoundHalfEven(k, unit) ==
    LET q == k \div unit
        r == k % unit
    IN  IF 2 * r < unit THEN q * unit
        ELSE IF 2 * r > unit THEN (q + 1) * unit
        ELSE IF q % 2 = 0 THEN q * unit ELSE (q + 1) * unit

\* what a SELECT returns for the whole number k >= 0 written to the column
ColumnFloat(k) ==
    LET single == RoundHalfEven(k, UnitOf(k, 2, SignificandBits, 1))
    IN  RoundHalfEven(single, UnitOf(single, 10, FloatDigits, 1))

\* the connector can bind quality_score to the FLOAT column's parameter
Bindable(q) == q.t \in {"num", "null", "str"}
\* the server takes the value as it is: a number, NULL or a numeral
StoresExactly(q) == q.t \in {"num", "null"} \/ (q.t = "str" /\ IsNumeral(q.s))
\* what the FLOAT column holds for q (0 for a text that is no numeral,
\* which only a server outside strict mode accepts)
StoredQuality(q) ==
    IF q.t = "num" THEN PyNum(ColumnFloat(q.n))
    ELSE IF q.t = "null" THEN q
    ELSE IF IsNumeral(q.s) THEN PyNum(NumeralValue(q.s))
    ELSE PyNum(0)

\* the row insert_review adds
Row(id, created_at, filenames, l) ==
    [id |-> id, created_at |-> created_at,
     filenames |-> JoinNames(filenames),
     summary |-> l.summary, details |-> l.details, raw_response |-> l.raw_response,
     issues_json |-> Dumps(l.issues),
     quality_score |-> StoredQuality(l.quality_score),
     metrics_json |-> Dumps(MetricsToPy(l.metrics)),
     strengths_json |-> Dumps(l.strengths)]

\* iterating v: the items of a list; a str or a dict yields strs (no dict
\* among them); None and numbers are not iterable
Iterable(v) == v.t \in {"list", "str", "dict"}
Items(v) == IF v.t = "list" THEN v.l ELSE << >>

IsDictEntry(v) == v.t = "dict"

\* [x for x in xs if isinstance(x, dict)]
RECURSIVE DictEntries(_)
DictEntries(xs) ==
    IF xs = << >> THEN << >>
    ELSE IF IsDictEntry(Head(xs)) THEN << Head(xs) >> \o DictEntries(Tail(xs))
    ELSE DictEntries(Tail(xs))

\* the fields of schemas.Issue that have no default
IssueRequired ==
    {"id", "file", "line_start", "line_end", "severity", "category", "message",
     "suggestion"}
IssueIntFields == {"line_start", "line_end"}

\* pydantic accepts v for a field of the given type; lax is whether this
\* pydantic coerces numbers to str (its major versions differ)
FitsStr(v, lax) == v.t = "str" \/ (lax /\ v.t = "num")
FitsInt(v) == v.t = "num" \/ (v.t = "str" /\ IsNumeral(v.s))
FitsFloat(v) == v.t = "num" \/ (v.t = "str" /\ IsNumeral(v.s))
\* the float a float field holds for v: a numeral is converted
CoerceFloat(v) == IF v.t = "str" /\ IsNumeral(v.s) THEN PyNum(NumeralValue(v.s)) ELSE v

\* Issue(**d) validates
IssueValid(d, lax) ==
    /\ IssueRequired \subseteq DOMAIN d.d
    /\ \A k \in IssueRequired :
          IF k \in IssueIntFields THEN FitsInt(d.d[k]) ELSE FitsStr(d.d[k], lax)
    /\ "code_patch" \in DOMAIN d.d =>
          (d.d["code_patch"].t = "null" \/ FitsStr(d.d["code_patch"], lax))

\* the Issue model built from d: its own fields only, code_patch defaulted
IssueModel(d) ==
    PyDict([k \in IssueRequired \cup {"code_patch"} |->
                IF k \in DOMAIN d.d THEN d.d[k] ELSE PyStr(<< >>)])

\* ReviewResponse(...) validates: quality_score a float, strengths a list of str
ResponseValid(l, lax) ==
    /\ FitsFloat(l.quality_score)
    /\ l.strengths.t = "list"
    /\ \A i \in 1..Len(l.strengths.l) : FitsStr(l.strengths.l[i], lax)

\* HTTP responses
Resp(op, status, detail, body) ==
    [op |-> op, status |-> status, detail |-> detail, body |-> body]
NoBody == [none |-> TRUE]
NoResp == Resp("none", 0, "", NoBody)

\* the request in hand: the handler's position and locals, and the
\* outbound model requests (posts) and storage calls (dbCalls) it has made
Req(op, pc, input, file_contents, filenames, llm, locals, review_id, posts, dbCalls) ==
    [op |-> op, pc |-> pc, input |-> input, file_contents |-> file_contents,
     filenames |-> filenames, llm |-> llm, locals |-> locals,
     review_id |-> review_id, posts |-> posts, dbCalls |-> dbCalls]
NoLocals == [none |-> TRUE]
NoOutcome == [none |-> TRUE]
Idle == Req("none", "idle", << >>, << >>, << >>, NoOutcome, NoLocals, 0, 0, 0)

\* no request is being handled
Quiet == req.pc \in {"idle", "done"}

\* POST /api/review, lines 47-75: the uploads are checked and read
PostReview(files) ==
    /\ Quiet
    /\ Len(reviews) < MaxReviews
    /\ LET err == UploadError(files)
           read == ReadUploads(files, 1, << >>, << >>)
       IN  IF err # ""
           THEN /\ req' = Req("review", "done", files, << >>, << >>, NoOutcome,
                              NoLocals, 0, 0, 0)
                /\ resp' = Resp("review", 400, err, NoBody)
           ELSE /\ req' = Req("review", "call_llm", files, read.file_contents,
                              read.filenames, NoOutcome, NoLocals, 0, 0, 0)
                /\ UNCHANGED resp
    /\ UNCHANGED <<apiKey, endpoint, clock, reviews, posted, pydanticLax, fnVars>>

\* lines 77-104: review_code_with_llm is called and its result unpacked
CallLLM ==
    /\ req.pc = "call_llm"
    /\ LET out == review_code_with_llm(req.file_contents, apiKey, endpoint)
           l == Locals(out.value)
       IN  IF out.exc # ""
           THEN /\ req' = [req EXCEPT !.pc = "done", !.llm = out, !.posts = out.posts]
                /\ resp' = Resp("review", 500,
                                IF out.exc = "LLMConfigError" THEN "GROQ_API_KEY is not set"
                                ELSE "LLM error", NoBody)
           ELSE IF l.raised
           THEN /\ req' = [req EXCEPT !.pc = "done", !.llm = out, !.posts = out.posts]
                /\ resp' = Resp("review", 500, "Internal Server Error", NoBody)
           ELSE /\ req' = [req EXCEPT !.pc = "save", !.llm = out, !.posts = out.posts,
                                      !.locals = l]
                /\ UNCHANGED resp
    /\ UNCHANGED <<apiKey, endpoint, clock, reviews, posted, pydanticLax, fnVars>>

\* lines 106-119: insert_review; the database may fail, and fails when it
\* cannot take quality_score
SaveReview ==
    /\ req.pc = "save"
    /\ \E dbOk \in BOOLEAN, strict \in BOOLEAN :
          IF dbOk /\ Bindable(req.locals.quality_score)
                  /\ (strict => StoresExactly(req.locals.quality_score))
          THEN /\ reviews' = Append(reviews,
                        Row(Len(reviews) + 1, clock, req.filenames, req.locals))
               /\ posted' = Append(posted, NoBody)
               /\ req' = [req EXCEPT !.pc = "build", !.review_id = Len(reviews) + 1,
                                     !.dbCalls = @ + 1]
               /\ UNCHANGED resp
          ELSE /\ req' = [req EXCEPT !.pc = "done", !.dbCalls = @ + 1]
               /\ resp' = Resp("review", 500, "Database error", NoBody)
               /\ UNCHANGED <<reviews, posted>>
    /\ UNCHANGED <<apiKey, endpoint, clock, pydanticLax, fnVars>>

\* lines 121-132: the Issue models and the ReviewResponse are built
BuildResponse ==
    /\ req.pc = "build"
    /\ LET l == req.locals
           dicts == DictEntries(Items(l.issues))
           body == [id |-> req.review_id, summary |-> l.summary,
                    details |-> l.details,
                    issues |-> [i \in 1..Len(dicts) |-> IssueModel(dicts[i])],
                    raw_response |-> l.raw_response,
                    quality_score |-> CoerceFloat(l.quality_score),
                    strengths |-> l.strengths, metrics |-> l.metrics]
       IN  IF /\ Iterable(l.issues)
              /\ \A i \in 1..Len(dicts) : IssueValid(dicts[i], pydanticLax)
              /\ ResponseValid(l, pydanticLax)
           THEN /\ resp' = Resp("review", 200, "", body)
                /\ posted' = [posted EXCEPT ![req.review_id] = body]
           ELSE /\ resp' = Resp("review", 500, "Internal Server Error", NoBody)
                /\ UNCHANGED posted
    /\ req' = [req EXCEPT !.pc = "done"]
    /\ UNCHANGED <<apiKey, endpoint, clock, reviews, pydanticLax, fnVars>>

\* the rows in an order ORDER BY created_at DESC may give: rows of one
\* timestamp come in any order
IsNewestFirst(order) ==
    \A i, j \in 1..Len(order) :
        i < j => reviews[order[i]].created_at >= reviews[order[j]].created_at
Orders ==
    {o \in [1..Len(reviews) -> 1..Len(reviews)] :
        (\A i, j \in 1..Len(reviews) : i # j => o[i] # o[j]) /\ IsNewestFirst(o)}

ListItem(row) ==
    [id |-> row.id, created_at |-> row.created_at, filenames |-> row.filenames,
     summary |-> row.summary, quality_score |-> row.quality_score]

\* limit < 1 or limit > 100
LimitRejected(limit) == limit < MinLimit \/ limit > MaxLimit

\* GET /api/reports?limit=
ListReports(limit) ==
    /\ Quiet
    /\ IF LimitRejected(limit)
       THEN /\ req' = Req("list", "done", limit, << >>, << >>, NoOutcome, NoLocals,
                          0, 0, 0)
            /\ resp' = Resp("list", 400, "limit must be between 1 and 100", NoBody)
       ELSE /\ req' = Req("list", "done", limit, << >>, << >>, NoOutcome, NoLocals,
                          0, 0, 1)
            /\ \E dbOk \in BOOLEAN, o \in Orders :
                  LET rows == [i \in 1..(IF Len(o) < limit THEN Len(o) ELSE limit) |->
                                  reviews[o[i]]]
                  IN  IF ~dbOk
                      THEN resp' = Resp("list", 500, "Database error", NoBody)
                      ELSE IF \E i \in 1..Len(rows) : ~FitsFloat(rows[i].quality_score)
                      THEN resp' = Resp("list", 500, "Internal Server Error", NoBody)
                      ELSE resp' = Resp("list", 200, "",
                                        [i \in 1..Len(rows) |-> ListItem(rows[i])])
    /\ UNCHANGED <<apiKey, endpoint, clock, reviews, posted, pydanticLax, fnVars>>

\* json.loads of a stored column, [] or {} when it fails or the document
\* is not of the type wanted (lines 181-206 of get_report)
LoadedAs(column, type, default) ==
    LET doc == JsonLoads(column)
    IN  IF column # << >> /\ doc.ok /\ doc.value.t = type THEN doc.value ELSE default

\* the issues of a report: the Issue models of the stored mappings, none
\* when one of them does not validate
ReportIssues(row, lax) ==
    LET dicts == DictEntries(LoadedAs(row.issues_json, "list", PyList(<< >>)).l)
    IN  IF \A i \in 1..Len(dicts) : IssueValid(dicts[i], lax)
        THEN [i \in 1..Len(dicts) |-> IssueModel(dicts[i])]
        ELSE << >>

\* the ReviewDetail of a row
ReviewDetail(row, lax) ==
    [id |-> row.id, created_at |-> row.created_at, filenames |-> row.filenames,
     summary |-> row.summary, details |-> row.details,
     issues |-> ReportIssues(row, lax),
     raw_response |-> row.raw_response,
     quality_score |-> CoerceFloat(row.quality_score),
     strengths |-> LoadedAs(row.strengths_json, "list", PyList(<< >>)),
     metrics |-> LoadedAs(row.metrics_json, "dict", PyDict(EmptyMap))]

\* ReviewDetail(...) validates
DetailValid(row, lax) ==
    LET strengths == LoadedAs(row.strengths_json, "list", PyList(<< >>))
    IN  /\ FitsFloat(row.quality_score)
        /\ \A i \in 1..Len(strengths.l) : FitsStr(strengths.l[i], lax)

\* the row of that id, as fetch_review_by_id finds it or not
HasRow(report_id) == report_id \in 1..Len(reviews)

\* GET /api/reports/{report_id}
GetReport(report_id) ==
    /\ Quiet
    /\ req' = Req("report", "done", report_id, << >>, << >>, NoOutcome, NoLocals,
                  0, 0, 1)
    /\ \E dbOk \in BOOLEAN :
          IF ~dbOk
          THEN resp' = Resp("report", 500, "Database error", NoBody)
          ELSE IF ~HasRow(report_id)
          THEN resp' = Resp("report", 404, "Report not found", NoBody)
          ELSE IF ~DetailValid(reviews[report_id], pydanticLax)
          THEN resp' = Resp("report", 500, "Internal Server Error", NoBody)
          ELSE resp' = Resp("report", 200, "",
                            ReviewDetail(reviews[report_id], pydanticLax))
    /\ UNCHANGED <<apiKey, endpoint, clock, reviews, posted, pydanticLax, fnVars>>

\* the database clock advances
Tick ==
    /\ clock < MaxClock
    /\ clock' = clock + 1
    /\ UNCHANGED <<apiKey, endpoint, reviews, req, resp, posted, pydanticLax, fnVars>>

----------------------------------------------------------------------------
(* Function harness: the inputs drawn for the pure functions *)

\* characters of drawn file contents
ContentChars == {"\n", " ", "#", "a", "i", "f", "F"}

RECURSIVE SeqsUpTo(_, _)
SeqsUpTo(S, n) ==
    IF n = 0 THEN {<< >>}
    ELSE LET shorter == SeqsUpTo(S, n - 1)
         IN  shorter \cup {Append(s, x) : s \in {t \in shorter : Len(t) = n - 1}, x \in S}

Contents == {Text(cs) : cs \in SeqsUpTo(ContentChars, MaxContentLen)}

\* issue entries a reply may carry: well formed (two of them, told apart by
\* their strings), one required field missing, one field of a wrong type,
\* and an entry that is no mapping
GoodIssue(c) ==
    PyDict([k \in IssueRequired |->
                IF k \in IssueIntFields THEN PyNum(1) ELSE PyStr(Text(<< c >>))])
MissingFieldIssue ==
    PyDict([k \in IssueRequired \ {"message"} |->
                IF k \in IssueIntFields THEN PyNum(1) ELSE PyStr(Text(<< "m" >>))])
WrongTypeIssue ==
    PyDict([k \in IssueRequired |->
                IF k = "line_start" THEN PyList(<< >>)
                ELSE IF k \in IssueIntFields THEN PyNum(1)
                ELSE PyStr(Text(<< "w" >>))])
NonDictEntry == PyStr(Text(<< "x" >>))

IssueEntries ==
    {GoodIssue("1"), GoodIssue("2"), MissingFieldIssue, WrongTypeIssue, NonDictEntry}
IssueLists == {PyList(l) : l \in SeqsUpTo(IssueEntries, MaxIssues)}

\* the JSON objects with each key absent or bound to one of the given values
Absent == [absent |-> TRUE]
Objects(S, D, Q, G, I, M) ==
    {PyDict([k \in {kk \in DOMAIN f : f[kk] # Absent} |-> f[k]]) :
        f \in [summary : S, details : D, quality_score : Q, strengths : G,
               issues : I, metrics : M]}

Str(cs) == PyStr(Text(cs))
BogusMetrics == PyDict([k \in {"evil.py"} |-> PyNum(0)])

\* replies drawn for review_code_with_llm alone
FnObjects ==
    Objects({Absent, Str(<< " ", "o", "k" >>), PyNone},
            {Absent, Str(<< "d" >>)},
            {Absent, PyNum(8), Str(<< "9" >>)},
            {Absent, PyList(<< Str(<< "s" >>) >>), PyNone},
            {Absent, PyNone} \cup IssueLists,
            {Absent, BogusMetrics})

\* JSON documents that are no object
NonObjects == {PyList(<< PyNum(1) >>), PyNone, PyNum(7), Str(<< "t" >>)}

\* raw replies that are not JSON: 1..MaxReplyLines lines, blank or not,
\* with or without whitespace before and after
ReplyLines == {<< >>, << "a" >>, << "b" >>}
LinesUpTo(n) == SeqsUpTo(ReplyLines, n) \ {<< >>}
Pads == {<< >>, << "\n" >>, << " ", "\n" >>}
RawTexts(n) ==
    {Text(pre) \o JoinNL([i \in 1..Len(ls) |-> Text(ls[i])]) \o Text(post) :
        pre \in Pads, post \in Pads, ls \in LinesUpTo(n)}

\* a JSON document as the reply text, with or without whitespace around it
DocTexts(V) == {Text(pre) \o << Doc(v) >> \o Text(post) : pre \in {<< >>, << "\n" >>},
                                                        post \in {<< >>, << " " >>}, v \in V}

Answer(status, content) == [status |-> status, content |-> content]
Failures == {Answer(st, << >>) : st \in {"timeout", "http_error", "bad_body"}}

FnAnswers ==
    Failures \cup {Answer("ok", c) : c \in RawTexts(2) \cup DocTexts(FnObjects \cup NonObjects)}

File(name, content) == [name |-> name, content |-> content]
FnFileSets ==
    {<< >>,
     << File("a.py", Text(<< "#", "\n", "a" >>)) >>,
     << File("b.py", << >>), File("a.py", Text(<< "i", "f" >>)) >>}

NoCall == [fn |-> "none"]
NoRet == [done |-> FALSE]

InitService ==
    /\ apiKey = FALSE
    /\ endpoint = Answer("timeout", << >>)
    /\ clock = 0
    /\ reviews = << >>
    /\ req = Idle
    /\ resp = NoResp
    /\ posted = << >>
    /\ pydanticLax = FALSE

InitMetrics ==
    \E c \in Contents :
        call = [fn |-> "calculate_code_metrics", files |-> << File("a.py", c) >>]

InitFallback ==
    \E text \in RawTexts(MaxReplyLines) \cup DocTexts(NonObjects) :
        call = [fn |-> "_fallback_parse", text |-> text]

InitReview ==
    \E files \in FnFileSets, key \in BOOLEAN, answer \in FnAnswers :
        call = [fn |-> "review_code_with_llm", files |-> files, key |-> key,
                answer |-> answer]

ApplyMetrics ==
    /\ call.fn = "calculate_code_metrics"
    /\ ~ret.done
    /\ ret' = [done |-> TRUE, value |-> calculate_code_metrics(call.files)]
    /\ UNCHANGED <<call, frames, svcVars>>

ApplyFallback ==
    /\ call.fn = "_fallback_parse"
    /\ ~ret.done
    /\ ret' = [done |-> TRUE, value |-> _fallback_parse(call.text)]
    /\ UNCHANGED <<call, frames, svcVars>>

ApplyReview ==
    /\ call.fn = "review_code_with_llm"
    /\ ~ret.done
    /\ ret' = [done |-> TRUE,
               value |-> review_code_with_llm(call.files, call.key, call.answer)]
    /\ UNCHANGED <<call, frames, svcVars>>

\* file contents around the truncation budget: the characters up to the
\* budget are told apart from those past it
LongContent(n) ==
    [i \in 1..n |-> Chr(IF i = 1 THEN "h"
                        ELSE IF i = max_chars THEN "l"
                        ELSE IF i > max_chars THEN "z"
                        ELSE "a")]
PromptContents ==
    {<< >>, Text(<< "i", "f" >>), LongContent(max_chars - 1)}
    \cup {LongContent(max_chars + k) : k \in 0..MaxOverBudget}
PromptFileSets ==
    {<< >>}
    \cup {<< File(n, c) >> : n \in {"a.py", "b.py"}, c \in PromptContents}
    \cup {<< File(n[1], c), File(n[2], d) >> :
            n \in {<< "a.py", "b.py" >>, << "b.py", "a.py" >>},
            c \in PromptContents, d \in PromptContents}

InitPrompt ==
    \E files \in PromptFileSets :
        call = [fn |-> "_build_prompt_from_files", files |-> files]

ApplyPrompt ==
    /\ call.fn = "_build_prompt_from_files"
    /\ ~ret.done
    /\ ret' = [done |-> TRUE, value |-> _build_prompt_from_files(call.files)]
    /\ UNCHANGED <<call, frames, svcVars>>

\* lines drawn for scan_security_issues: a line for each category, lines
\* two regexes match, lines that only look like a match, and a blank line
\* eval(x)
EvalLine ==
    << "e", "v", "a", "l", "(", "x", ")" >>
\* EVAL(x)
UpperEvalLine ==
    << "E", "V", "A", "L", "(", "x", ")" >>
\* medieval(x)
MedievalLine ==
    << "m", "e", "d", "i", "e", "v", "a", "l", "(", "x", ")" >>
\* exec(eval(x))
ExecEvalLine ==
    << "e", "x", "e", "c", "(", "e", "v", "a", "l", "(", "x", ")", ")" >>
\* os.system(eval(x))
OsSystemEvalLine ==
    << "o", "s", ".", "s", "y", "s", "t", "e", "m", "(", "e", "v", "a", "l",
       "(", "x", ")", ")" >>
\* password = 'ab'
PasswordLine ==
    << "p", "a", "s", "s", "w", "o", "r", "d", " ", "=", " ", "'", "a", "b",
       "'" >>
\* password = ''
EmptyPasswordLine ==
    << "p", "a", "s", "s", "w", "o", "r", "d", " ", "=", " ", "'", "'" >>
\*  cursor.execute('%s' + q) 
CursorLine ==
    << " ", "c", "u", "r", "s", "o", "r", ".", "e", "x", "e", "c", "u", "t",
       "e", "(", "'", "%", "s", "'", " ", "+", " ", "q", ")", " " >>
\* a blank line
BlankLine ==
    << >>
\* a = 1
PlainLine ==
    << "a", " ", "=", " ", "1" >>
\* subprocess.call(c, shell=True)
SubprocessLine ==
    << "s", "u", "b", "p", "r", "o", "c", "e", "s", "s", ".", "c", "a", "l",
       "l", "(", "c", ",", " ", "s", "h", "e", "l", "l", "=", "T", "r", "u",
       "e", ")" >>
\* api_key="k"
ApiKeyLine ==
    << "a", "p", "i", "_", "k", "e", "y", "=", "\"", "k", "\"" >>
\* osxsystem(x)
NoDotLine ==
    << "o", "s", "x", "s", "y", "s", "t", "e", "m", "(", "x", ")" >>
ScanLines ==
    {Text(l) : l \in {EvalLine, UpperEvalLine, MedievalLine, ExecEvalLine,
                       OsSystemEvalLine, PasswordLine, EmptyPasswordLine, CursorLine,
                       BlankLine, PlainLine, SubprocessLine, ApiKeyLine,
                       NoDotLine}}

\* contents of 1..MaxScanLines drawn lines (blank first and last lines
\* included)
ScanContents == {JoinNL(ls) : ls \in SeqsUpTo(ScanLines, MaxScanLines) \ {<< >>}}
ScanFileSets ==
    {<< >>}
    \cup {<< File("a.py", c) >> : c \in ScanContents}
    \cup {<< File("b.py", JoinNL(<< Text(k), Text(l) >>)), File("a.py", Text(m)) >> :
            k \in {EvalLine, BlankLine}, l \in {ExecEvalLine, PlainLine},
            m \in {OsSystemEvalLine, CursorLine}}

InitScan ==
    \E files \in ScanFileSets :
        call = [fn |-> "scan_security_issues", files |-> files]

ApplyScan ==
    /\ call.fn = "scan_security_issues"
    /\ ~ret.done
    /\ ret' = [done |-> TRUE, value |-> scan_security_issues(call.files)]
    /\ UNCHANGED <<call, frames, svcVars>>

InitFn == InitService /\ ret = NoRet /\ frames = << >> /\ (InitMetrics \/ InitFallback \/ InitReview \/ InitPrompt \/ InitScan)
NextFn == ApplyMetrics \/ ApplyFallback \/ ApplyReview \/ ApplyPrompt \/ ApplyScan
SpecFn == InitFn /\ [][NextFn]_vars

----------------------------------------------------------------------------
(* Concurrent calls of review_code_with_llm *)

CallFileSets ==
    {<< File("a.py", Text(EvalLine)) >>,
     << File("b.py", Text(<< "\n", "#" >>)), File("a.py", Text(PlainLine)) >>}
CallAnswers ==
    {Answer("timeout", << >>),
     Answer("ok", Text(<< "a", "\n", "b" >>)),
     Answer("ok", << Doc(PyDict([k \in {"summary"} |-> Str(<< "o", "k" >>)])) >>)}

InitCalls ==
    /\ call = NoCall /\ ret = NoRet
    /\ apiKey \in BOOLEAN
    /\ endpoint = Answer("timeout", << >>)
    /\ pydanticLax = FALSE
    /\ clock = 0
    /\ reviews = << >>
    /\ posted = << >>
    /\ req = Idle
    /\ resp = NoResp
    /\ frames \in [1..MaxCalls -> {NewFrame(fs, a) : fs \in CallFileSets, a \in CallAnswers}]

NextCalls ==
    \E p \in 1..Len(frames) :
        \/ CheckKey(p)
        \/ ComputeMetrics(p)
        \/ ScanSecurity(p)
        \/ BuildPrompt(p)
        \/ PostRequest(p)
        \/ ParseReply(p)

SpecCalls == InitCalls /\ [][NextCalls]_vars

----------------------------------------------------------------------------
(* The service: the inputs drawn, and the specification *)

\* issue lists of a reply: well-formed entries alone, and one malformed
\* entry before or after a well-formed one
Malformed == {MissingFieldIssue, WrongTypeIssue, NonDictEntry}
SvcIssueLists ==
    {PyList(<< >>), PyList(<< GoodIssue("1"), GoodIssue("2") >>)}
    \cup {PyList(<< m, GoodIssue("1") >>) : m \in Malformed}
    \cup {PyList(<< GoodIssue("1"), m >>) : m \in Malformed}

\* the well-formed reply, and the replies that differ from it in one key
GoodSummary == {Str(<< " ", "o", "k" >>)}
GoodDetails == {Str(<< "d" >>)}
GoodQuality == {PyNum(8)}
GoodStrengths == {PyList(<< Str(<< "s" >>) >>)}
GoodIssues == {PyList(<< GoodIssue("1") >>)}
NoMetrics == {Absent}
SvcObjects ==
    Objects({Absent, PyNone} \cup GoodSummary, GoodDetails, GoodQuality, GoodStrengths,
            GoodIssues, NoMetrics)
    \cup Objects(GoodSummary, GoodDetails, {PyNone, Str(<< "x" >>)},
                 GoodStrengths, GoodIssues, NoMetrics)
    \cup Objects(GoodSummary, GoodDetails, GoodQuality, {Absent, PyNone}, GoodIssues,
                 NoMetrics)
    \cup Objects(GoodSummary, GoodDetails, GoodQuality, GoodStrengths,
                 {Absent, PyNone, PyNum(7)} \cup SvcIssueLists, NoMetrics)
    \cup Objects(GoodSummary, GoodDetails, GoodQuality, GoodStrengths, GoodIssues,
                 {BogusMetrics})

SvcAnswers ==
    Failures
    \cup {Answer("ok", c) : c \in {Text(<< "\n", "a", "\n", "b", " " >>),
                                    << Doc(PyList(<< PyNum(1) >>)) >>}}
    \cup {Answer("ok", << Chr("\n"), Doc(v) >>) : v \in SvcObjects}

\* uploads: none; one file; two files, of two names or of one name, with a
\* file of exactly the largest size and one a byte larger; ten files,
\* eleven files, and ten files the last of which is too large
FileA == Upload("a.py", 3, Text(<< "#", "\n", "a" >>))
FileA2 == Upload("a.py", 2, Text(<< "i", "f" >>))
FileB == Upload("b.py", MaxFileBytes, Text(<< "i", "f" >>))
FileBig == Upload("b.py", MaxFileBytes + 1, Text(<< "i", "f" >>))
Bulk(n) == [i \in 1..n |-> Upload("f" \o ToString(i), 1, Text(<< "a" >>))]
SvcUploads ==
    {<< >>, << FileA >>, << FileA, FileB >>, << FileA, FileA2 >>, << FileBig >>,
     << FileA, FileBig >>, Bulk(max_files), Bulk(max_files + 1),
     Bulk(max_files - 1) \o << FileBig >>}

Limits == {MinLimit - 1, MinLimit, MaxLimit, MaxLimit + 1}

Init ==
    /\ call = NoCall /\ ret = NoRet /\ frames = << >>
    /\ apiKey \in BOOLEAN
    /\ endpoint \in SvcAnswers
    /\ pydanticLax \in BOOLEAN
    /\ clock = 0
    /\ reviews = << >>
    /\ posted = << >>
    /\ req = Idle
    /\ resp = NoResp

Next ==
    \/ \E files \in SvcUploads : Len(reviews) < MaxSvcReviews /\ PostReview(files)
    \/ CallLLM
    \/ SaveReview
    \/ BuildResponse
    \/ \E limit \in Limits : ListReports(limit)
    \/ Tick

Spec == Init /\ [][Next]_vars

----------------------------------------------------------------------------
(* The stored reviews: a service with a key and well-formed replies, whose
   table grows to MaxReviews rows *)

\* a score of more digits than the column keeps
LongQuality == {PyNum(Pow(2, SignificandBits) + 1)}
StoreAnswers ==
    {Answer("ok", Text(<< "\n", "a", "\n", "b", " " >>))}
    \cup {Answer("ok", << Doc(v) >>) :
            v \in Objects(GoodSummary, GoodDetails, GoodQuality \cup LongQuality,
                          GoodStrengths, GoodIssues, NoMetrics)}
\* report ids: none, those the table can hold, and one beyond
ReportIds == 0..(MaxReviews + 1)
StoreUploads == {<< FileA >>, << FileA, FileB >>}
StoreLimits == {MinLimit, MinLimit + 1, MaxLimit}

InitStore ==
    /\ call = NoCall /\ ret = NoRet /\ frames = << >>
    /\ apiKey = TRUE
    /\ endpoint \in StoreAnswers
    /\ pydanticLax \in BOOLEAN
    /\ clock = 0
    /\ reviews = << >>
    /\ posted = << >>
    /\ req = Idle
    /\ resp = NoResp

NextStore ==
    \/ \E files \in StoreUploads : PostReview(files)
    \/ CallLLM
    \/ SaveReview
    \/ BuildResponse
    \/ \E limit \in StoreLimits : ListReports(limit)
    \/ \E report_id \in ReportIds : GetReport(report_id)
    \/ Tick

SpecStore == InitStore /\ [][NextStore]_vars

----------------------------------------------------------------------------
(* Properties of the pure functions, checked under SpecFn *)

MetricsDone == call.fn = "calculate_code_metrics" /\ ret.done
FallbackDone == call.fn = "_fallback_parse" /\ ret.done
ReviewDone == call.fn = "review_code_with_llm" /\ ret.done
ReviewReturned == ReviewDone /\ ret.value.exc = ""

\* d is text without its leading and trailing whitespace
IsTrimOf(d, text) ==
    \E i \in 1..(Len(text) + 1), j \in 0..Len(text) :
        /\ d = SubSeq(text, i, j)
        /\ \A k \in 1..Len(text) : (k < i \/ k > j) => IsSpace(text[k])
        /\ d # << >> => ~IsSpace(d[1]) /\ ~IsSpace(d[Len(d)])

\* sm is the first k lines of d: all of d, or d up to its k-th newline
IsFirstLines(sm, d, k) ==
    IF Cardinality(NewlineAt(d)) < k THEN sm = d
    ELSE \E i \in NewlineAt(d) :
            /\ Cardinality({m \in NewlineAt(d) : m < i}) = k - 1
            /\ sm = SubSeq(d, 1, i - 1)

\* the reply text is one JSON object, with at most whitespace around it
IsObjectReply(content) ==
    \E i \in 1..Len(content) :
        /\ IsDoc(content[i]) /\ content[i].j.t = "dict"
        /\ \A k \in 1..Len(content) : k # i => IsSpace(content[k])
TheObject(content) == content[CHOOSE i \in 1..Len(content) : IsDoc(content[i])].j

\* C5: the metrics of every result review_code_with_llm returns is the map
\* calculate_code_metrics gives for the FileSet: the same keys in the same
\* order, each with the metrics of that file's content, whatever the reply
\* holds (structured or fallback path, a "metrics" key in the reply or not).
C5_MetricsFromCalculator ==
    ReviewReturned =>
        LET m == ret.value.value.metrics
        IN  /\ m = calculate_code_metrics(call.files)
            /\ {m[i].name : i \in 1..Len(m)} = KeySet(call.files)
            /\ Len(m) = Len(call.files)
            /\ \A i \in 1..Len(m) :
                  /\ m[i].name = call.files[i].name
                  /\ m[i].metrics = FileMetrics(call.files[i].content)

C5_Witness ==
    /\ ReviewReturned
    /\ Len(call.files) = 2
    /\ IsObjectReply(call.answer.content)
    /\ "metrics" \in DOMAIN TheObject(call.answer.content).d
    /\ Len(ret.value.value.metrics) = 2

\* C6 as stated: on the fallback path details is the entire raw text and
\* summary the first 5 lines of the raw text.
C6_FallbackKeepsRawText ==
    FallbackDone =>
        /\ ret.value.details = PyStr(call.text)
        /\ ret.value.summary = PyStr(JoinNL(Take(SplitNL(call.text), SummaryLines)))
        /\ ret.value.quality_score = PyNum(DefaultQuality)
        /\ ret.value.issues = PyList(<< >>)
        /\ ret.value.strengths = PyList(<< >>)
        /\ ret.value.raw_response = PyStr(call.text)

FallbackShape(r, text) ==
    /\ r.details.t = "str" /\ IsTrimOf(r.details.s, text)
    /\ r.summary.t = "str" /\ IsFirstLines(r.summary.s, r.details.s, SummaryLines)
    /\ r.quality_score = PyNum(DefaultQuality)
    /\ r.issues = PyList(<< >>)
    /\ r.strengths = PyList(<< >>)
    /\ r.raw_response = PyStr(text)

\* C6 amended: on the fallback path details is the raw text with its leading
\* and trailing whitespace removed, summary is the first 5 lines of that
\* trimmed text (all of it when it has fewer), quality_score is 5.0, issues
\* and strengths are empty and raw_response is the raw text unchanged; this
\* holds of _fallback_parse and of review_code_with_llm for every reply that
\* is no JSON object.
C6_FallbackTrimmed ==
    /\ FallbackDone => FallbackShape(ret.value, call.text)
    /\ (ReviewReturned /\ ~IsObjectReply(call.answer.content)) =>
            FallbackShape(ret.value.value, call.answer.content)

C6_Witness ==
    /\ FallbackDone
    /\ call.text # << >>
    /\ IsSpace(call.text[1]) /\ IsSpace(call.text[Len(call.text)])
    /\ Cardinality(NewlineAt(ret.value.details.s)) >= SummaryLines
    /\ Len(ret.value.summary.s) < Len(ret.value.details.s)

ProjectedKeys == {"summary", "details", "quality_score", "strengths", "issues"}
DefaultOf(k) ==
    IF k \in {"summary", "details"} THEN PyStr(<< >>)
    ELSE IF k = "quality_score" THEN PyNum(DefaultQuality)
    ELSE PyList(<< >>)

\* C7: when the reply parses as a JSON object, each of summary, details,
\* quality_score, strengths and issues of the result is the reply's value
\* for that key when the key is present and the default when it is absent,
\* and raw_response is the reply text verbatim.
C7_ProjectionOfObject ==
    (ReviewReturned /\ IsObjectReply(call.answer.content)) =>
        LET obj == TheObject(call.answer.content).d
            r == ret.value.value
        IN  /\ \A k \in ProjectedKeys :
                  r[k] = IF k \in DOMAIN obj THEN obj[k] ELSE DefaultOf(k)
            /\ r.raw_response = PyStr(call.answer.content)

C7_Witness ==
    /\ ReviewReturned
    /\ IsObjectReply(call.answer.content)
    /\ Len(call.answer.content) = 3
    /\ "summary" \notin DOMAIN TheObject(call.answer.content).d
    /\ "issues" \in DOMAIN TheObject(call.answer.content).d
    /\ ret.value.value.summary = PyStr(<< >>)
    /\ Len(ret.value.value.issues.l) = 2

\* C9 as stated: total_lines is code_lines + comment_lines + the number of
\* blank lines among the lines of the file split on newline.
C9_TotalOverFileLines ==
    MetricsDone =>
        \A i \in 1..Len(ret.value) :
            LET m == ret.value[i].metrics
                fileLines == SplitNL(call.files[i].content)
            IN  m.total_lines =
                    m.code_lines + m.comment_lines + CountIf(fileLines, IsBlankLine)

\* C9 amended: total_lines is code_lines + comment_lines + the number of
\* blank lines, where the lines counted are those of the content after its
\* leading and trailing whitespace is stripped, split on newline; every such
\* line is exactly one of code, comment and blank.
C9_TotalOverStrippedLines ==
    MetricsDone =>
        \A i \in 1..Len(ret.value) :
            LET m == ret.value[i].metrics
                stripped == SplitNL(Strip(call.files[i].content))
            IN  /\ m.total_lines = Len(stripped)
                /\ m.total_lines =
                     m.code_lines + m.comment_lines + CountIf(stripped, IsBlankLine)
                /\ m.code_lines = Cardinality({k \in 1..Len(stripped) :
                        Strip(stripped[k]) # << >> /\ Strip(stripped[k])[1].c # "#"})
                /\ m.comment_lines = Cardinality({k \in 1..Len(stripped) :
                        Strip(stripped[k]) # << >> /\ Strip(stripped[k])[1].c = "#"})

C9_Witness ==
    /\ MetricsDone
    /\ call.files[1].content = Text(<< "\n", "#", "\n", "a" >>)
    /\ ret.value[1].metrics.total_lines = 2
    /\ ret.value[1].metrics.code_lines = 1
    /\ ret.value[1].metrics.comment_lines = 1

\* C10 as stated: comment_ratio is in [0, 100] and is 0 exactly when
\* total_lines is 0.
C10_RatioZeroIffNoLines ==
    MetricsDone =>
        \A i \in 1..Len(ret.value) :
            LET m == ret.value[i].metrics
            IN  /\ m.comment_ratio \in 0..10000
                /\ (m.comment_ratio = 0) <=> (m.total_lines = 0)

\* C10 amended: comment_ratio is in [0, 100]; total_lines is never 0 (an
\* empty file counts one line), so the division is never by zero; and
\* comment_ratio is 0 exactly when comment_lines is 0 (for files of fewer
\* than 20000 lines, where rounding to 2 decimals cannot reach 0).
C10_RatioZeroIffNoComments ==
    MetricsDone =>
        \A i \in 1..Len(ret.value) :
            LET m == ret.value[i].metrics
            IN  /\ m.comment_ratio \in 0..10000
                /\ m.total_lines >= 1
                /\ (m.comment_ratio = 0) <=> (m.comment_lines = 0)

C10_Witness ==
    /\ MetricsDone
    /\ ret.value[1].metrics.total_lines = 3
    /\ ret.value[1].metrics.comment_lines = 0
    /\ ret.value[1].metrics.code_lines = 2
    /\ ret.value[1].metrics.comment_ratio = 0

----------------------------------------------------------------------------
(* Properties of the service, checked under Spec *)

\* the uploads are bad client input: none, more than 10, or one over 1 MB
BadUploads(files) ==
    \/ Len(files) = 0
    \/ Len(files) > 10
    \/ \E i \in 1..Len(files) : files[i].nbytes > 1000000

ReviewFinished == req.op = "review" /\ req.pc = "done"
\* the handler has called review_code_with_llm
Called == req.op = "review" /\ req.llm # NoOutcome

\* C1: with no GROQ_API_KEY, review_code_with_llm raises LLMConfigError
\* without an outbound request, whatever the FileSet; POST /api/review
\* answers 500 for every request that passes the upload checks, and no
\* review row is ever inserted.
C1_NoKeyFailsBeforeRequest ==
    ~apiKey =>
        /\ reviews = << >>
        /\ req.op = "review" =>
              /\ req.posts = 0 /\ req.dbCalls = 0
              /\ req.pc \notin {"save", "build"}
        /\ Called =>
              /\ req.llm.exc = "LLMConfigError"
              /\ req.llm.posts = 0
              /\ req.llm.value = NoResult
              /\ resp.op = "review" /\ resp.status = 500
        /\ (ReviewFinished /\ ~BadUploads(req.input)) => (Called /\ resp.status = 500)

C1_Witness ==
    /\ ~apiKey
    /\ ReviewFinished
    /\ Called
    /\ Len(req.file_contents) = 2
    /\ endpoint.status = "ok"
    /\ resp.status = 500

\* C2: when the endpoint answers with a non-success status or the request
\* times out, review_code_with_llm raises and returns nothing, POST
\* /api/review answers 500, and no review row is inserted.
C2_TransportFailureFails ==
    (apiKey /\ endpoint.status \in {"http_error", "timeout"}) =>
        /\ reviews = << >>
        /\ req.op = "review" =>
              /\ req.dbCalls = 0
              /\ req.pc \notin {"save", "build"}
        /\ Called =>
              /\ req.llm.exc \in {"HTTPError", "Timeout"}
              /\ req.llm.value = NoResult
              /\ resp.op = "review" /\ resp.status = 500
        /\ (ReviewFinished /\ ~BadUploads(req.input)) => (Called /\ resp.status = 500)

C2_Witness ==
    /\ apiKey
    /\ endpoint.status = "timeout"
    /\ ReviewFinished
    /\ Called
    /\ req.posts = 1
    /\ resp.status = 500

\* C3: whatever text the model returns with a success status, the review
\* request does not fail: review_code_with_llm returns a result and POST
\* /api/review answers with success (storage failures apart).
C3_OkReplyNeverFails ==
    (/\ ReviewFinished
     /\ apiKey
     /\ endpoint.status = "ok"
     /\ ~BadUploads(req.input)
     /\ resp.detail # "Database error") =>
        /\ Called
        /\ req.llm.exc = ""
        /\ resp.status = 200

\* an issue entry is a well-formed Issue mapping
WellFormedEntry(e) ==
    /\ e.t = "dict"
    /\ \A k \in {"id", "file", "severity", "category", "message", "suggestion"} :
          k \in DOMAIN e.d /\ e.d[k].t = "str"
    /\ \A k \in {"line_start", "line_end"} : k \in DOMAIN e.d /\ e.d[k].t = "num"

RECURSIVE WellFormedOnly(_)
WellFormedOnly(xs) ==
    IF xs = << >> THEN << >>
    ELSE IF WellFormedEntry(Head(xs)) THEN << Head(xs) >> \o WellFormedOnly(Tail(xs))
    ELSE WellFormedOnly(Tail(xs))

\* the reply is an object, well formed in every key but for the entries of
\* its issues list
GoodButForIssueEntries(content) ==
    /\ IsObjectReply(content)
    /\ LET obj == TheObject(content).d
       IN  /\ {"summary", "details", "quality_score", "strengths", "issues"}
                  \subseteq DOMAIN obj
           /\ obj["summary"].t = "str" /\ obj["details"].t = "str"
           /\ obj["quality_score"].t = "num"
           /\ obj["strengths"].t = "list"
           /\ \A i \in 1..Len(obj["strengths"].l) : obj["strengths"].l[i].t = "str"
           /\ obj["issues"].t = "list"

\* C4: a malformed entry of the reply's issues list is dropped without
\* raising, and every well-formed entry is kept, in order, in the review
\* returned (storage failures apart).
C4_MalformedEntriesDropped ==
    (/\ ReviewFinished
     /\ apiKey
     /\ endpoint.status = "ok"
     /\ ~BadUploads(req.input)
     /\ GoodButForIssueEntries(endpoint.content)
     /\ resp.detail # "Database error") =>
        /\ resp.status = 200
        /\ LET kept == WellFormedOnly(TheObject(endpoint.content).d["issues"].l)
           IN  /\ Len(resp.body.issues) = Len(kept)
               /\ \A i \in 1..Len(kept) :
                     \A k \in DOMAIN kept[i].d : resp.body.issues[i].d[k] = kept[i].d[k]

\* C8: POST /api/review with no file, more than 10 files or a file of more
\* than 1,000,000 bytes, and GET /api/reports with a limit outside 1..100,
\* are answered 400 before any model call or storage call; input inside
\* those bounds is never answered 400.
C8_BadInputRejectedFirst ==
    /\ req.op = "review" =>
          /\ BadUploads(req.input) =>
                /\ req.pc = "done"
                /\ resp.op = "review" /\ resp.status = 400
                /\ req.posts = 0 /\ req.dbCalls = 0 /\ req.llm = NoOutcome
          /\ (req.pc = "done" /\ resp.status = 400) => BadUploads(req.input)
    /\ req.op = "list" =>
          /\ req.input \notin 1..100 =>
                /\ resp.op = "list" /\ resp.status = 400
                /\ req.posts = 0 /\ req.dbCalls = 0
          /\ resp.status = 400 => req.input \notin 1..100

C8_Witness ==
    /\ ReviewFinished
    /\ resp.status = 400
    /\ Len(req.input) = 10
    /\ req.input[10].nbytes = 1000001
    /\ req.posts = 0 /\ req.dbCalls = 0

----------------------------------------------------------------------------
(* Properties of the prompt, checked under SpecFn *)

PromptDone == call.fn = "_build_prompt_from_files" /\ ret.done

\* positions of a marker token in a prompt, and the k-th of them
TokensAt(p, c) == {i \in 1..Len(p) : p[i].c = c}
Kth(S, k) == CHOOSE x \in S : Cardinality({y \in S : y < x}) = k - 1

\* C11: in the built prompt the files appear in insertion order, each between
\* a begin marker naming it and an end marker; a file longer than 8000
\* characters appears as its first 8000 characters followed by the truncation
\* marker, with no character past the budget; a file of at most 8000
\* characters appears in full without a marker.
C11_PromptTruncatesAtBudget ==
    PromptDone =>
        LET p == ret.value
            files == call.files
            begins == TokensAt(p, "--- BEGIN FILE: ")
            ends == TokensAt(p, "--- END FILE ---")
            n == Len(files)
        IN  /\ Cardinality(begins) = n /\ Cardinality(ends) = n
            /\ n = 0 => p = << >>
            /\ n > 0 => (Kth(begins, 1) = 1 /\ Kth(ends, n) = Len(p) - 1)
            /\ \A k \in 1..n :
                  LET b == Kth(begins, k)
                      e == Kth(ends, k)
                      body == SubSeq(p, b + 4, e - 2)
                      content == files[k].content
                  IN  /\ b < e
                      /\ p[b + 1].c = files[k].name
                      /\ p[b + 2].c = " ---" /\ p[b + 3].c = "\n"
                      /\ p[e - 1].c = "\n" /\ p[e + 1].c = "\n"
                      /\ k < n => (p[e + 2].c = "\n" /\ Kth(begins, k + 1) = e + 3)
                      /\ IF Len(content) > 8000
                         THEN /\ Len(body) = 8003
                              /\ SubSeq(body, 1, 8000) = SubSeq(content, 1, 8000)
                              /\ body[8001].c = "\n" /\ body[8002].c = "\n"
                              /\ body[8003].c = "[...TRUNCATED...]"
                              /\ \A i \in 1..Len(body) : body[i].c # "z"
                         ELSE /\ body = content
                              /\ TokensAt(body, "[...TRUNCATED...]") = {}

C11_Witness ==
    /\ PromptDone
    /\ Len(call.files) = 2
    /\ call.files[1].name = "b.py"
    /\ Len(call.files[1].content) = 8001
    /\ Len(call.files[2].content) = 8000
    /\ Cardinality(TokensAt(ret.value, "[...TRUNCATED...]")) = 1
    /\ TokensAt(ret.value, "z") = {}
    /\ Cardinality(TokensAt(ret.value, "l")) = 2

----------------------------------------------------------------------------
(* Properties of the stored reviews, checked under SpecStore *)

Listed == req.op = "list" /\ req.pc = "done" /\ resp.op = "list" /\ resp.status = 200
ListedIds == {resp.body[i].id : i \in 1..Len(resp.body)}

\* C12: a listing with a limit in 1..100 holds at most limit reviews (all of
\* them when there are fewer), the review inserted later (the larger id)
\* before the one inserted earlier, also for two reviews of one timestamp
\* tick, and no review is left out while an older one is listed.
C12_ListedNewestFirst ==
    Listed =>
        /\ Len(resp.body) = (IF Len(reviews) < req.input THEN Len(reviews) ELSE req.input)
        /\ \A i, j \in 1..Len(resp.body) : i < j => resp.body[i].id > resp.body[j].id
        /\ \A r \in 1..Len(reviews) :
              reviews[r].id \notin ListedIds => \A k \in ListedIds : k > reviews[r].id

----------------------------------------------------------------------------
(* Properties of the security scan, checked under SpecFn *)

ScanDone == call.fn = "scan_security_issues" /\ ret.done

\* the index of the file named name, of the category titled title
FileIndex(files, name) == CHOOSE i \in 1..Len(files) : files[i].name = name
CategoryIndex(title) == CHOOSE c \in 1..Len(patterns) : patterns[c].title = title

\* C14: scan_security_issues returns (it does not raise) one finding for
\* every file, line, category and regex of that category such that the regex
\* matches the line ignoring case, with no deduplication; the findings come
\* in file insertion order, then ascending 1-based line number, then category
\* declaration order; each finding's code is the line trimmed.
C14_OneFindingPerMatch ==
    ScanDone =>
        LET fs == ret.value
            files == call.files
        IN  /\ \A k \in 1..Len(fs) :
                  /\ fs[k].file \in KeySet(files)
                  /\ fs[k].type \in {patterns[c].title : c \in 1..Len(patterns)}
                  /\ LET lines == SplitNL(files[FileIndex(files, fs[k].file)].content)
                     IN  /\ fs[k].line \in 1..Len(lines)
                         /\ fs[k].code = Strip(lines[fs[k].line])
            /\ \A i \in 1..Len(files) :
                  LET lines == SplitNL(files[i].content)
                  IN  \A n \in 1..Len(lines), c \in 1..Len(patterns) :
                         Cardinality({k \in 1..Len(fs) :
                                         /\ fs[k].file = files[i].name
                                         /\ fs[k].line = n
                                         /\ fs[k].type = patterns[c].title})
                         = Cardinality({r \in 1..Len(patterns[c].regexes) :
                                           Search(patterns[c].regexes[r], lines[n])})
            /\ \A j, k \in 1..Len(fs) :
                  j < k =>
                     LET fj == FileIndex(files, fs[j].file)
                         fk == FileIndex(files, fs[k].file)
                         cj == CategoryIndex(fs[j].type)
                         ck == CategoryIndex(fs[k].type)
                     IN  \/ fj < fk
                         \/ fj = fk /\ fs[j].line < fs[k].line
                         \/ fj = fk /\ fs[j].line = fs[k].line /\ cj <= ck

C14_Witness ==
    /\ ScanDone
    /\ Len(call.files) = 2
    /\ Len(ret.value) = 5
    /\ ret.value[2] = ret.value[3]
    /\ ret.value[2].file = "b.py" /\ ret.value[2].line = 2
    /\ ret.value[4].type = "Unsafe Eval" /\ ret.value[5].type = "Command Injection"
    /\ ret.value[4].file = "a.py" /\ ret.value[5].line = 1

\* C17: the line number of every finding for a file lies in 1..total_lines,
\* the total_lines calculate_code_metrics reports for that file.
C17_FindingLineWithinTotal ==
    ScanDone =>
        LET m == calculate_code_metrics(call.files)
        IN  \A k \in 1..Len(ret.value) :
               LET i == FileIndex(call.files, ret.value[k].file)
               IN  ret.value[k].line \in 1..m[i].metrics.total_lines

----------------------------------------------------------------------------
(* Properties of the calls of review_code_with_llm, checked under SpecCalls *)

\* what call p has returned or raised, as an outcome
OutcomeOf(f) == Outcome(f.exc, f.result, f.posts)

\* C13: a call of review_code_with_llm makes at most one outbound request,
\* none without a credential and exactly one with it by the time it ends;
\* metrics and security findings are bound before the request is made; a
\* reply that fails JSON parsing ends in the fallback result with that one
\* request.
C13_SingleRequestAfterMetrics ==
    \A p \in 1..Len(frames) :
        LET f == frames[p]
        IN  /\ f.posts <= 1
            /\ ~apiKey => f.posts = 0
            /\ (Ended(f) /\ apiKey) => f.posts = 1
            /\ (f.posts > 0 \/ f.pc = "post") =>
                    /\ {"metrics", "security_issues"} \subseteq f.computed
                    /\ f.metrics = calculate_code_metrics(f.files)
                    /\ f.security_issues = scan_security_issues(f.files)
            /\ (f.pc = "returned" /\ ~IsObjectReply(f.answer.content)) =>
                    /\ f.posts = 1
                    /\ FallbackShape(f.result, f.answer.content)

C13_Witness ==
    \E p \in 1..Len(frames) :
        /\ frames[p].pc = "returned"
        /\ ~JsonLoads(frames[p].answer.content).ok
        /\ frames[p].posts = 1
        /\ frames[p].security_issues # << >>
        /\ frames[p].result.quality_score = PyNum(DefaultQuality)

\* a step changes the frame of one call only
OnlyOwnFrame ==
    \A p \in 1..Len(frames) :
        frames'[p] # frames[p] => \A q \in 1..Len(frames) : q # p => frames'[q] = frames[q]

\* after the step, every call that has ended has the outcome of a call run
\* alone on its arguments
EndsAsAlone ==
    \A p \in 1..Len(frames) :
        Ended(frames'[p]) =>
            OutcomeOf(frames'[p]) =
                review_code_with_llm(frames[p].files, apiKey, frames[p].answer)

\* C15: under every interleaving of the statements of concurrent calls, a
\* step of one call changes neither the other call's locals nor the shared
\* GROQ_API_KEY, nor its own arguments, and each call ends with the result
\* it returns when run alone on its FileSet with its reply.
C15_CallsIndependent ==
    [][/\ apiKey' = apiKey
       /\ Len(frames') = Len(frames)
       /\ OnlyOwnFrame
       /\ \A p \in 1..Len(frames) :
             frames'[p].files = frames[p].files /\ frames'[p].answer = frames[p].answer
       /\ EndsAsAlone]_vars

C15_Witness ==
    /\ Len(frames) >= 2
    /\ frames[1].files # frames[2].files
    /\ frames[1].pc = "returned" /\ frames[2].pc = "returned"
    /\ frames[1].answer # frames[2].answer
    /\ frames[1].metrics # frames[2].metrics
    /\ frames[1].result # frames[2].result


----------------------------------------------------------------------------
(* Properties of the stored rows, checked under Spec *)

\* the request in hand has added a row to the table
RowInserted == req.op = "review" /\ req.review_id # 0

\* C16: POST /api/review inserts a review row only for requests that then
\* return a success response carrying that row's id: no request ends in an
\* error after its review has been persisted, whatever the model replied.
C16_NoErrorAfterInsert ==
    (ReviewFinished /\ RowInserted) =>
        /\ resp.status = 200
        /\ resp.body.id = req.review_id
        /\ reviews[req.review_id].id = req.review_id


\* the names of a stored filenames text: its tokens between the ", "
\* separators
SeparatorStride == 3
StoredNames(joined) ==
    [k \in 1..((Len(joined) + SeparatorStride - 1) \div SeparatorStride) |->
        joined[SeparatorStride * (k - 1) + 1].c]

\* the keys of a stored metrics document
StoredMetricsKeys(metrics_json) == DOMAIN metrics_json[1].j.d

\* C18: for every review stored by POST /api/review, the persisted
\* filenames list names each reviewed file exactly once and names exactly
\* the keys of the stored metrics map, including when two uploaded files
\* share the same filename.
C18_FilenamesAreMetricsKeys ==
    \A r \in 1..Len(reviews) :
        LET names == StoredNames(reviews[r].filenames)
            keys == StoredMetricsKeys(reviews[r].metrics_json)
        IN  /\ \A i, j \in 1..Len(names) : names[i] = names[j] => i = j
            /\ {names[i] : i \in 1..Len(names)} = keys
            /\ Len(names) = Cardinality(keys)


----------------------------------------------------------------------------
(* Properties of the reports, checked under SpecStore *)

ReportFinished == req.op = "report" /\ req.pc = "done"

\* the review of that id was created by a POST that answered with success
PostSucceeded(id) == id \in 1..Len(posted) /\ posted[id] # NoBody

\* the report answers with the fields the POST answered with
SameAsPosted(report, post) ==
    /\ report.summary = post.summary
    /\ report.details = post.details
    /\ report.issues = post.issues
    /\ report.raw_response = post.raw_response
    /\ report.quality_score = post.quality_score
    /\ report.strengths = post.strengths
    /\ report.metrics = MetricsToPy(post.metrics)

\* C19: round trip through storage: for every review created by a
\* successful POST /api/review, a later GET /api/reports/{id} with the
\* returned id returns the same summary, details, issues, raw_response,
\* quality_score, strengths and metrics as the POST response, and a GET for
\* an id that was never assigned returns not-found (404) (failures of the
\* database connection apart).
C19_ReportRoundTrip ==
    (ReportFinished /\ resp.detail # "Database error") =>
        /\ PostSucceeded(req.input) =>
              resp.status = 200 /\ SameAsPosted(resp.body, posted[req.input])
        /\ req.input \notin 1..Len(reviews) => resp.status = 404

====
